---- MODULE Spec2Model ----
(***************************************************************************)
(* Model of GLprimer.cpp: the column-major 4x4 matrix functions            *)
(* (mat4mult, mat4identity, mat4rotx/y/z, mat4scale, mat4translate,        *)
(* mat4perspective) and the rendering loop of main().                      *)
(*                                                                         *)
(* Numbers.  A float is modelled by an exact rational <<n, d>> in lowest   *)
(* terms with d > 0; rounding, infinities and NaN are not modelled.        *)
(*                                                                         *)
(* Angles.  An angle is a point <<q, k, j>> of the lattice                 *)
(*     q * (pi/2) + k * atan(3/4) + j * atan(13/84),                       *)
(* whose cosine and sine are rational and are computed (Cos, Sin) by       *)
(* complex multiplication.  The literal angles of main() are mapped to     *)
(* the nearest lattice point that keeps the denominators small.            *)
(***************************************************************************)
EXTENDS Integers, Sequences, FiniteSets, TLC

\* ------------------------------------------------------------------------
\* Bounds of the model
\* ------------------------------------------------------------------------
\* Number of iterations of the rendering loop in one behaviour.
MaxFrames == 2

\* ------------------------------------------------------------------------
\* float arithmetic, as exact rationals
\* ------------------------------------------------------------------------
Abs(x) == IF x < 0 THEN -x ELSE x

RECURSIVE GCD(_, _)
GCD(a, b) == IF b = 0 THEN a ELSE GCD(b, a % b)

\* The rational n/d in lowest terms, d # 0.
Rat(n, d) ==
    LET g == GCD(Abs(n), Abs(d))
        s == IF d < 0 THEN -1 ELSE 1
    IN  <<s * (n \div g), s * (d \div g)>>

Flt(n) == <<n, 1>>

RNeg(a) == <<-a[1], a[2]>>

\* a + b (the first two branches only shorten the evaluation)
RAdd(a, b) ==
    IF a[1] = 0 THEN b
    ELSE IF b[1] = 0 THEN a
    ELSE LET g == GCD(a[2], b[2])
         IN  Rat(a[1] * (b[2] \div g) + b[1] * (a[2] \div g),
                 (a[2] \div g) * b[2])

\* a * b, cancelling across before multiplying (the first branch only
\* shortens the evaluation)
RMul(a, b) ==
    IF a[1] = 0 \/ b[1] = 0 THEN <<0, 1>>
    ELSE LET g1 == GCD(Abs(a[1]), b[2])
             g2 == GCD(Abs(b[1]), a[2])
         IN  <<(a[1] \div g1) * (b[1] \div g2), (a[2] \div g2) * (b[2] \div g1)>>

\* a / b for b # 0 (the callers' precondition).
RDiv(a, b) ==
    RMul(a, IF b[1] > 0 THEN <<b[2], b[1]>> ELSE <<-b[2], -b[1]>>)

RLess(a, b) == a[1] * b[2] < b[1] * a[2]

\* ------------------------------------------------------------------------
\* <cmath>: cos, sin, tan on the angle lattice
\* ------------------------------------------------------------------------
\* Complex multiplication of <<re, im>> pairs of rationals.
CMul(u, v) ==
    <<RAdd(RMul(u[1], v[1]), RNeg(RMul(u[2], v[2]))),
      RAdd(RMul(u[1], v[2]), RMul(u[2], v[1]))>>

CConj(u) == <<u[1], RNeg(u[2])>>

RECURSIVE CPow(_, _)
CPow(u, n) ==
    IF n = 0 THEN <<Flt(1), Flt(0)>>
    ELSE IF n < 0 THEN CPow(CConj(u), -n)
    ELSE CMul(u, CPow(u, n - 1))

\* e^{i a} for the lattice angle a = <<q, k, j>>.
CisOf(a) ==
    CMul(CPow(<<Flt(0), Flt(1)>>, a[1]),
         CMul(CPow(<<Rat(4, 5), Rat(3, 5)>>, a[2]),
              CPow(<<Rat(84, 85), Rat(13, 85)>>, a[3])))

Cos(a) == CisOf(a)[1]
Sin(a) == CisOf(a)[2]
\* tan(a/2) = sin a / (1 + cos a), for a not an odd multiple of pi.
TanHalf(a) == RDiv(Sin(a), RAdd(Flt(1), Cos(a)))

\* Unary minus on an angle.
NegAngle(a) == <<-a[1], -a[2], -a[3]>>

\* ------------------------------------------------------------------------
\* The matrix functions.  A matrix is a 16-tuple; At(m, i) is the C++ m[i].
\* ------------------------------------------------------------------------
At(m, i) == m[i + 1]

\* mat4mult with both matrices read row-major: result[c*4+r] is the sum of
\* m1[r*4+k] * m2[k*4+c].
mat4multRowMajor(m1, m2) ==
    [i \in 1..16 |->
        LET c == (i - 1) \div 4
            r == (i - 1) % 4
        IN  RAdd(RAdd(RAdd(RMul(At(m1, r * 4 + 0), At(m2, 0 * 4 + c)),
                           RMul(At(m1, r * 4 + 1), At(m2, 1 * 4 + c))),
                      RMul(At(m1, r * 4 + 2), At(m2, 2 * 4 + c))),
                 RMul(At(m1, r * 4 + 3), At(m2, 3 * 4 + c)))]

\* mat4mult with one index mistyped in its last line: m1[12] for m1[15].
mat4multLastLineTypo(m1, m2) ==
    [i \in 1..16 |->
        LET c == (i - 1) \div 4
            r == (i - 1) % 4
            last == IF i = 16 THEN 12 ELSE 12 + r
        IN  RAdd(RAdd(RAdd(RMul(At(m1, 0 + r), At(m2, c * 4 + 0)),
                           RMul(At(m1, 4 + r), At(m2, c * 4 + 1))),
                      RMul(At(m1, 8 + r), At(m2, c * 4 + 2))),
                 RMul(At(m1, last), At(m2, c * 4 + 3)))]

\* One line of mat4mult: a*e + b*f + c*g + d*h, summed left to right.
Dot4(a, e, b, f, c, g, d, h) ==
    RAdd(RAdd(RAdd(RMul(a, e), RMul(b, f)), RMul(c, g)), RMul(d, h))

mat4mult(m1, m2) ==
    << Dot4(At(m1,0), At(m2,0),  At(m1,4), At(m2,1),  At(m1,8),  At(m2,2),  At(m1,12), At(m2,3)),
       Dot4(At(m1,1), At(m2,0),  At(m1,5), At(m2,1),  At(m1,9),  At(m2,2),  At(m1,13), At(m2,3)),
       Dot4(At(m1,2), At(m2,0),  At(m1,6), At(m2,1),  At(m1,10), At(m2,2),  At(m1,14), At(m2,3)),
       Dot4(At(m1,3), At(m2,0),  At(m1,7), At(m2,1),  At(m1,11), At(m2,2),  At(m1,15), At(m2,3)),

       Dot4(At(m1,0), At(m2,4),  At(m1,4), At(m2,5),  At(m1,8),  At(m2,6),  At(m1,12), At(m2,7)),
       Dot4(At(m1,1), At(m2,4),  At(m1,5), At(m2,5),  At(m1,9),  At(m2,6),  At(m1,13), At(m2,7)),
       Dot4(At(m1,2), At(m2,4),  At(m1,6), At(m2,5),  At(m1,10), At(m2,6),  At(m1,14), At(m2,7)),
       Dot4(At(m1,3), At(m2,4),  At(m1,7), At(m2,5),  At(m1,11), At(m2,6),  At(m1,15), At(m2,7)),

       Dot4(At(m1,0), At(m2,8),  At(m1,4), At(m2,9),  At(m1,8),  At(m2,10), At(m1,12), At(m2,11)),
       Dot4(At(m1,1), At(m2,8),  At(m1,5), At(m2,9),  At(m1,9),  At(m2,10), At(m1,13), At(m2,11)),
       Dot4(At(m1,2), At(m2,8),  At(m1,6), At(m2,9),  At(m1,10), At(m2,10), At(m1,14), At(m2,11)),
       Dot4(At(m1,3), At(m2,8),  At(m1,7), At(m2,9),  At(m1,11), At(m2,10), At(m1,15), At(m2,11)),

       Dot4(At(m1,0), At(m2,12), At(m1,4), At(m2,13), At(m1,8),  At(m2,14), At(m1,12), At(m2,15)),
       Dot4(At(m1,1), At(m2,12), At(m1,5), At(m2,13), At(m1,9),  At(m2,14), At(m1,13), At(m2,15)),
       Dot4(At(m1,2), At(m2,12), At(m1,6), At(m2,13), At(m1,10), At(m2,14), At(m1,14), At(m2,15)),
       Dot4(At(m1,3), At(m2,12), At(m1,7), At(m2,13), At(m1,11), At(m2,14), At(m1,15), At(m2,15)) >>

\* mat4identity with its last element mistyped as 0.
mat4identityLastZero ==
    << Flt(1), Flt(0), Flt(0), Flt(0),
       Flt(0), Flt(1), Flt(0), Flt(0),
       Flt(0), Flt(0), Flt(1), Flt(0),
       Flt(0), Flt(0), Flt(0), Flt(0) >>

mat4identity ==
    << Flt(1), Flt(0), Flt(0), Flt(0),
       Flt(0), Flt(1), Flt(0), Flt(0),
       Flt(0), Flt(0), Flt(1), Flt(0),
       Flt(0), Flt(0), Flt(0), Flt(1) >>

mat4rotx(angle) ==
    << Flt(1), Flt(0),           Flt(0),     Flt(0),
       Flt(0), Cos(angle),       Sin(angle), Flt(0),
       Flt(0), RNeg(Sin(angle)), Cos(angle), Flt(0),
       Flt(0), Flt(0),           Flt(0),     Flt(1) >>

mat4roty(angle) ==
    << Cos(angle),       Flt(0), Sin(angle), Flt(0),
       Flt(0),           Flt(1), Flt(0),     Flt(0),
       RNeg(Sin(angle)), Flt(0), Cos(angle), Flt(0),
       Flt(0),           Flt(0), Flt(0),     Flt(1) >>

mat4rotz(angle) ==
    << Cos(angle),       Sin(angle), Flt(0), Flt(0),
       RNeg(Sin(angle)), Cos(angle), Flt(0), Flt(0),
       Flt(0),           Flt(0),     Flt(1), Flt(0),
       Flt(0),           Flt(0),     Flt(0), Flt(1) >>

mat4scale(scale) ==
    << scale,  Flt(0), Flt(0), Flt(0),
       Flt(0), scale,  Flt(0), Flt(0),
       Flt(0), Flt(0), scale,  Flt(0),
       Flt(0), Flt(0), Flt(0), Flt(1) >>

\* mat4translate with the translation written in the last column of the
\* initialiser, which column-major storage makes the last row.
mat4translateRowMajor(x, y, z) ==
    << Flt(1), Flt(0), Flt(0), x,
       Flt(0), Flt(1), Flt(0), y,
       Flt(0), Flt(0), Flt(1), z,
       Flt(0), Flt(0), Flt(0), Flt(1) >>

mat4translate(x, y, z) ==
    << Flt(1), Flt(0), Flt(0), Flt(0),
       Flt(0), Flt(1), Flt(0), Flt(0),
       Flt(0), Flt(0), Flt(1), Flt(0),
       x,      y,      z,      Flt(1) >>

\* mat4perspective dividing by (znear - zfar).
mat4perspectiveSwappedPlanes(vfov, aspect, znear, zfar) ==
    LET f == RDiv(Flt(1), TanHalf(vfov))
    IN  << RDiv(f, aspect), Flt(0), Flt(0), Flt(0),
           Flt(0), f, Flt(0), Flt(0),
           Flt(0), Flt(0), RNeg(RDiv(RAdd(zfar, znear), RAdd(znear, RNeg(zfar)))), Flt(-1),
           Flt(0), Flt(0), RNeg(RDiv(RMul(RMul(Flt(2), znear), zfar), RAdd(znear, RNeg(zfar)))), Flt(0) >>

mat4perspective(vfov, aspect, znear, zfar) ==
    LET f == RDiv(Flt(1), TanHalf(vfov))
    IN  << RDiv(f, aspect), Flt(0), Flt(0), Flt(0),
           Flt(0), f, Flt(0), Flt(0),
           Flt(0), Flt(0), RNeg(RDiv(RAdd(zfar, znear), RAdd(zfar, RNeg(znear)))), Flt(-1),
           Flt(0), Flt(0), RNeg(RDiv(RMul(RMul(Flt(2), znear), zfar), RAdd(zfar, RNeg(znear)))), Flt(0) >>

\* ------------------------------------------------------------------------
\* State
\* ------------------------------------------------------------------------
VARIABLES
    \* the matrix bench: operands, the last function applied, its scalar
    \* arguments and its result
    opA, opB, op, args, res,
    \* main(): position in the rendering loop and iteration number
    pc, frame,
    \* window: its size, the size main() last read (width, height), the
    \* should-close flag and the state of the ESC key
    winSize, width, height, shouldClose, escDown,
    \* glfwGetTime() as read by this iteration (seconds)
    time,
    \* myKeyRotator, myMouseRotator: [phi, theta]; polls counts the poll()
    \* calls of the current iteration
    keyRot, mouseRot, polls,
    \* locals of the loop body (NoMat while not yet declared)
    matKey, matMouse, rSpin, Ilumination, P,
    \* shader uniforms MV, T, P and the iteration that last uploaded each
    \* (0: never)
    uniform, uploadedIn,
    \* draws: the draw calls of the current iteration, each with the
    \* uniforms in effect
    draws,
    \* how often each GL object / the window has been released
    released

benchVars == <<opA, opB, op, args, res>>
loopVars == <<pc, frame, winSize, width, height, shouldClose, escDown, time, keyRot,
              mouseRot, polls, matKey, matMouse, rSpin, Ilumination, P,
              uniform, uploadedIn, draws, released>>
vars == <<benchVars, loopVars>>

\* A local that is not (yet) in scope.
NoMat == <<>>
\* The value of a uniform that was never set (GL initialises it to zero).
ZeroMat == [i \in 1..16 |-> Flt(0)]

\* ------------------------------------------------------------------------
\* The matrix bench: the matrix functions applied to bounded inputs
\* ------------------------------------------------------------------------
\* Matrices whose 16 entries are pairwise distinct, so that any exchange of
\* indices shows.
TaggedA == [i \in 1..16 |-> Flt(i)]
TaggedB == [i \in 1..16 |-> Rat(2 * i - 17, 3)]

PiHalf == <<1, 0, 0>>
BenchAngles ==
    {<<0, 0, 0>>, PiHalf, <<0, 1, 0>>, <<0, -1, 0>>, <<0, 0, 1>>, <<2, 1, -1>>}
BenchScalars == {Flt(0), Flt(1), Flt(-3), Rat(4, 5)}
\* vfov: pi/2 and the lattice points nearest to pi/3 and pi/4.
BenchFovs == {PiHalf, <<1, -1, 1>>, <<0, 1, 0>>}
BenchAspects == {Flt(1), Flt(2), Rat(4, 3)}
BenchPlanes == {Rat(1, 10), Flt(1), Flt(2), Flt(100)}

\* The operands of mat4mult: the tagged matrices and results of the other
\* matrix functions, as main() passes them.
BenchOperands ==
    {mat4identity, TaggedA, TaggedB,
     mat4translate(Flt(0), Flt(0), Flt(-3)),
     mat4roty(<<0, 1, 0>>),
     mat4perspective(PiHalf, Flt(2), Flt(1), Flt(2))}

BenchInit ==
    /\ opA \in BenchOperands
    /\ opB \in BenchOperands
    /\ op = "none"
    /\ args = <<>>
    /\ res = NoMat

\* Each action is one call, with the operands passed by const reference;
\* a behaviour makes one call on the inputs it drew.
BenchMult ==
    /\ op = "none"
    /\ op' = "mat4mult"
    /\ res' = mat4mult(opA, opB)
    /\ UNCHANGED <<opA, opB, args, loopVars>>

BenchIdentity ==
    /\ op = "none"
    /\ op' = "mat4identity"
    /\ res' = mat4identity
    /\ UNCHANGED <<opA, opB, args, loopVars>>

BenchRotX ==
    /\ op = "none"
    /\ \E a \in BenchAngles :
          /\ args' = <<a>>
          /\ res' = mat4rotx(a)
    /\ op' = "mat4rotx"
    /\ UNCHANGED <<opA, opB, loopVars>>

BenchRotY ==
    /\ op = "none"
    /\ \E a \in BenchAngles :
          /\ args' = <<a>>
          /\ res' = mat4roty(a)
    /\ op' = "mat4roty"
    /\ UNCHANGED <<opA, opB, loopVars>>

BenchRotZ ==
    /\ op = "none"
    /\ \E a \in BenchAngles :
          /\ args' = <<a>>
          /\ res' = mat4rotz(a)
    /\ op' = "mat4rotz"
    /\ UNCHANGED <<opA, opB, loopVars>>

BenchScale ==
    /\ op = "none"
    /\ \E s \in BenchScalars :
          /\ args' = <<s>>
          /\ res' = mat4scale(s)
    /\ op' = "mat4scale"
    /\ UNCHANGED <<opA, opB, loopVars>>

BenchTranslate ==
    /\ op = "none"
    /\ \E x, y, z \in BenchScalars :
          /\ args' = <<x, y, z>>
          /\ res' = mat4translate(x, y, z)
    /\ op' = "mat4translate"
    /\ UNCHANGED <<opA, opB, loopVars>>

BenchPerspective ==
    /\ op = "none"
    /\ \E vfov \in BenchFovs, aspect \in BenchAspects, znear, zfar \in BenchPlanes :
          /\ RLess(znear, zfar)
          /\ args' = <<vfov, aspect, znear, zfar>>
          /\ res' = mat4perspective(vfov, aspect, znear, zfar)
    /\ op' = "mat4perspective"
    /\ UNCHANGED <<opA, opB, loopVars>>

BenchNext ==
    \/ BenchMult
    \/ BenchIdentity
    \/ BenchRotX
    \/ BenchRotY
    \/ BenchRotZ
    \/ BenchScale
    \/ BenchTranslate
    \/ BenchPerspective

\* ------------------------------------------------------------------------
\* main(): the rendering loop
\* ------------------------------------------------------------------------
\* Window sizes in pixels that the window system may give the window.
Sizes == {<<400, 400>>, <<800, 400>>, <<400, 300>>}
\* Angles a Rotator may hold after poll().
RotAngles == {<<0, 0, 0>>, <<0, 1, 0>>}
RotStates == [phi : RotAngles, theta : RotAngles]

\* The literal angles of main() on the angle lattice.
\* 1 radian (57.30 deg) -> 4 atan(3/4) - pi/2 (57.48 deg)
OneRadian == <<-1, 4, 0>>
\* 10*(M_PI/100) (18 deg) -> 2 atan(13/84) (17.59 deg)
TiltTrex == <<0, 0, 2>>
\* 5*(M_PI/100) (9 deg) -> atan(13/84) (8.80 deg)
TiltSphere == <<0, 0, 1>>
\* M_PI/3.0 (60 deg) -> pi/2 - atan(3/4) + atan(13/84) (61.93 deg)
PiThird == <<1, -1, 1>>
\* time/4*M_PI for a time that is an even number of seconds.
OrbitAngle(t) == <<t \div 2, 0, 0>>

NoLocals ==
    /\ matKey = NoMat
    /\ matMouse = NoMat
    /\ rSpin = NoMat
    /\ Ilumination = NoMat
    /\ P = NoMat

LoopInit ==
    /\ pc = "loop_test"
    /\ frame = 0
    /\ winSize = <<400, 400>>
    /\ width = winSize[1]
    /\ height = winSize[2]
    /\ shouldClose = FALSE
    /\ escDown = FALSE
    /\ time = 0
    /\ keyRot = [phi |-> <<0, 0, 0>>, theta |-> <<0, 0, 0>>]
    /\ mouseRot = [phi |-> <<0, 0, 0>>, theta |-> <<0, 0, 0>>]
    /\ polls = [key |-> 0, mouse |-> 0]
    /\ NoLocals
    /\ uniform = [MV |-> ZeroMat, T |-> ZeroMat, P |-> ZeroMat]
    /\ uploadedIn = [MV |-> 0, T |-> 0, P |-> 0]
    /\ draws = <<>>
    /\ released = [vertexArray |-> 0, vertexBuffer |-> 0, indexBuffer |-> 0,
                   colorBuffer |-> 0, window |-> 0]

\* while (!glfwWindowShouldClose(window))
\* A loop condition that never sees the flag.
LoopConditionIgnoringFlag(flag) == TRUE

LoopCondition(flag) == ~flag

LoopTest ==
    /\ pc = "loop_test"
    /\ IF LoopCondition(shouldClose)
       THEN /\ frame < MaxFrames
            /\ frame' = frame + 1
            /\ pc' = "begin_frame"
            \* the locals of the previous iteration went out of scope
            /\ matKey' = NoMat
            /\ matMouse' = NoMat
            /\ rSpin' = NoMat
            /\ Ilumination' = NoMat
            /\ P' = NoMat
            /\ polls' = [key |-> 0, mouse |-> 0]
            /\ draws' = <<>>
       ELSE /\ pc' = "cleanup"
            /\ UNCHANGED <<frame, matKey, matMouse, rSpin, Ilumination, P,
                           polls, draws>>
    /\ UNCHANGED <<benchVars, winSize, width, height, shouldClose, escDown,
                   time, keyRot, mouseRot, uniform, uploadedIn, released>>

\* glfwGetWindowSize, glViewport, glClear, glfwGetTime
BeginFrame ==
    /\ pc = "begin_frame"
    /\ width' = winSize[1]
    /\ height' = winSize[2]
    /\ \E dt \in {0, 2} : time' = time + dt
    /\ pc' = "poll_key"
    /\ UNCHANGED <<benchVars, frame, winSize, shouldClose, escDown, keyRot,
                   mouseRot, polls, matKey, matMouse, rSpin, Ilumination, P,
                   uniform, uploadedIn, draws, released>>

\* Rotator::poll(): the angles it may hold afterwards.
RotatorPoll(r) == RotStates

\* myKeyRotator.poll()
KeyPoll ==
    /\ pc = "poll_key"
    /\ keyRot' \in RotatorPoll(keyRot)
    /\ polls' = [polls EXCEPT !.key = @ + 1]
    /\ pc' = "orient_key"
    /\ UNCHANGED <<benchVars, frame, winSize, width, height, shouldClose,
                   escDown, time, mouseRot, matKey, matMouse, rSpin,
                   Ilumination, P, uniform, uploadedIn, draws, released>>

\* The key orientation built from the angles of a new Rotator instead of
\* the polled ones.
KeyOrientationStale(r) == mat4mult(mat4rotz(<<0, 0, 0>>), mat4rotx(<<0, 0, 0>>))

\* mat4mult(mat4rotz(-myKeyRotator.phi()), mat4rotx(-myKeyRotator.theta()))
KeyOrientation(r) ==
    mat4mult(mat4rotz(NegAngle(r.phi)), mat4rotx(NegAngle(r.theta)))

KeyOrient ==
    /\ pc = "orient_key"
    /\ matKey' = KeyOrientation(keyRot)
    /\ pc' = "poll_mouse"
    /\ UNCHANGED <<benchVars, frame, winSize, width, height, shouldClose,
                   escDown, time, keyRot, mouseRot, polls, matMouse, rSpin,
                   Ilumination, P, uniform, uploadedIn, draws, released>>

\* myMouseRotator.poll()
MousePoll ==
    /\ pc = "poll_mouse"
    /\ mouseRot' \in RotatorPoll(mouseRot)
    /\ polls' = [polls EXCEPT !.mouse = @ + 1]
    /\ pc' = "orient_mouse"
    /\ UNCHANGED <<benchVars, frame, winSize, width, height, shouldClose,
                   escDown, time, keyRot, matKey, matMouse, rSpin,
                   Ilumination, P, uniform, uploadedIn, draws, released>>

\* mat4mult(mat4rotz(myMouseRotator.phi()), mat4rotx(-myMouseRotator.theta()))
MouseOrientation(r) ==
    mat4mult(mat4rotz(r.phi), mat4rotx(NegAngle(r.theta)))

MouseOrient ==
    /\ pc = "orient_mouse"
    /\ matMouse' = MouseOrientation(mouseRot)
    /\ pc' = "mv_trex"
    /\ UNCHANGED <<benchVars, frame, winSize, width, height, shouldClose,
                   escDown, time, keyRot, mouseRot, polls, matKey, rSpin,
                   Ilumination, P, uniform, uploadedIn, draws, released>>

\* glUniformMatrix4fv(location of name, 1, GL_FALSE, m.data())
Upload(name, m) ==
    /\ uniform' = [uniform EXCEPT ![name] = m]
    /\ uploadedIn' = [uploadedIn EXCEPT ![name] = frame]

\* TriangleSoup::render() of a mesh, with the uniforms now in the shader
Render(mesh) ==
    draws' = Append(draws, [mesh |-> mesh, uploadedIn |-> uploadedIn])

\* vTranslate = mat4translate(0, 0, -3); vRot = mat4rotx(10*(M_PI/100));
\* rSpin = mat4mult(mat4mult(mat4mult(vTranslate, mat4roty(1)), vRot), matKey)
TrexModelView(mk) ==
    LET vTranslate == mat4translate(Flt(0), Flt(0), Flt(-3))
        vRot == mat4rotx(TiltTrex)
    IN  mat4mult(mat4mult(mat4mult(vTranslate, mat4roty(OneRadian)), vRot), mk)

UploadTrexMV ==
    /\ pc = "mv_trex"
    /\ rSpin' = TrexModelView(matKey)
    /\ Upload("MV", rSpin')
    /\ pc' = "draw_trex"
    /\ UNCHANGED <<benchVars, frame, winSize, width, height, shouldClose,
                   escDown, time, keyRot, mouseRot, polls, matKey, matMouse,
                   Ilumination, P, draws, released>>

DrawTrex ==
    /\ pc = "draw_trex"
    /\ Render("myTrex")
    /\ pc' = "mv_sphere"
    /\ UNCHANGED <<benchVars, frame, winSize, width, height, shouldClose,
                   escDown, time, keyRot, mouseRot, polls, matKey, matMouse,
                   rSpin, Ilumination, P, uniform, uploadedIn, released>>

\* vRot = mat4rotx(5*(M_PI/100)); vOrbit = mat4roty(time/4*M_PI);
\* cT = mat4translate(0, 0, 0.8); matO = mat4mult(mat4mult(vOrbit, cT), vRot);
\* rSpin = mat4mult(mat4mult(mat4mult(vTranslate, mat4roty(time/4*M_PI)), vRot), matO)
SphereModelView(t) ==
    LET vTranslate == mat4translate(Flt(0), Flt(0), Flt(-3))
        vRot == mat4rotx(TiltSphere)
        vOrbit == mat4roty(OrbitAngle(t))
        cT == mat4translate(Flt(0), Flt(0), Rat(4, 5))
        matO == mat4mult(mat4mult(vOrbit, cT), vRot)
    IN  mat4mult(mat4mult(mat4mult(vTranslate, mat4roty(OrbitAngle(t))), vRot), matO)

UploadSphereMV ==
    /\ pc = "mv_sphere"
    /\ rSpin' = SphereModelView(time)
    /\ Upload("MV", rSpin')
    /\ pc' = "draw_sphere"
    /\ UNCHANGED <<benchVars, frame, winSize, width, height, shouldClose,
                   escDown, time, keyRot, mouseRot, polls, matKey, matMouse,
                   Ilumination, P, draws, released>>

DrawSphere ==
    /\ pc = "draw_sphere"
    /\ Render("myShpere")
    /\ pc' = "upload_T"
    /\ UNCHANGED <<benchVars, frame, winSize, width, height, shouldClose,
                   escDown, time, keyRot, mouseRot, polls, matKey, matMouse,
                   rSpin, Ilumination, P, uniform, uploadedIn, released>>

\* Ilumination = mat4mult(matMouse, mat4identity()); upload as T
UploadT ==
    /\ pc = "upload_T"
    /\ Ilumination' = mat4mult(matMouse, mat4identity)
    /\ Upload("T", Ilumination')
    /\ pc' = "upload_P"
    /\ UNCHANGED <<benchVars, frame, winSize, width, height, shouldClose,
                   escDown, time, keyRot, mouseRot, polls, matKey, matMouse,
                   rSpin, P, draws, released>>

\* mat4perspective(M_PI/3.0, 1.0f, 0.1f, 100.0f): the aspect passed is the
\* literal 1.0f; the width w and height h read at the top of the iteration
\* are not used.
Projection(w, h) == mat4perspective(PiThird, Flt(1), Rat(1, 10), Flt(100))

UploadP ==
    /\ pc = "upload_P"
    /\ P' = Projection(width, height)
    /\ Upload("P", P')
    /\ pc' = "draw_vao"
    /\ UNCHANGED <<benchVars, frame, winSize, width, height, shouldClose,
                   escDown, time, keyRot, mouseRot, polls, matKey, matMouse,
                   rSpin, Ilumination, draws, released>>

\* glBindVertexArray(vertexArrayID); glDrawElements(...) twice
DrawVertexArray ==
    /\ pc = "draw_vao"
    /\ draws' = Append(Append(draws,
                    [mesh |-> "vertexArray", uploadedIn |-> uploadedIn]),
                    [mesh |-> "vertexArray", uploadedIn |-> uploadedIn])
    /\ pc' = "swap_poll"
    /\ UNCHANGED <<benchVars, frame, winSize, width, height, shouldClose,
                   escDown, time, keyRot, mouseRot, polls, matKey, matMouse,
                   rSpin, Ilumination, P, uniform, uploadedIn, released>>

\* glfwSwapBuffers(window); glfwPollEvents(): the events processed are a
\* resize, a close request, a press or release of ESC, or none.
SwapAndPollEvents ==
    /\ pc = "swap_poll"
    /\ \/ UNCHANGED <<winSize, shouldClose, escDown>>
       \/ /\ winSize' \in Sizes \ {winSize}
          /\ UNCHANGED <<shouldClose, escDown>>
       \/ /\ shouldClose' = TRUE
          /\ UNCHANGED <<winSize, escDown>>
       \/ /\ escDown' = ~escDown
          /\ UNCHANGED <<winSize, shouldClose>>
    /\ pc' = "esc_check"
    /\ UNCHANGED <<benchVars, frame, width, height, time, keyRot, mouseRot,
                   polls, matKey, matMouse, rSpin, Ilumination, P, uniform,
                   uploadedIn, draws, released>>

\* if (glfwGetKey(window, GLFW_KEY_ESCAPE)) glfwSetWindowShouldClose(window, GL_TRUE)
EscapeCheck ==
    /\ pc = "esc_check"
    /\ shouldClose' = (shouldClose \/ escDown)
    /\ pc' = "loop_test"
    /\ UNCHANGED <<benchVars, frame, winSize, width, height, escDown, time,
                   keyRot, mouseRot, polls, matKey, matMouse, rSpin,
                   Ilumination, P, uniform, uploadedIn, draws, released>>

\* glDeleteVertexArrays, glDeleteBuffers x3, glfwDestroyWindow, glfwTerminate
Cleanup ==
    /\ pc = "cleanup"
    /\ released' = [k \in DOMAIN released |-> released[k] + 1]
    /\ pc' = "done"
    /\ UNCHANGED <<benchVars, frame, winSize, width, height, shouldClose,
                   escDown, time, keyRot, mouseRot, polls, matKey, matMouse,
                   rSpin, Ilumination, P, uniform, uploadedIn, draws>>

\* ------------------------------------------------------------------------
\* Specifications
\* ------------------------------------------------------------------------
\* The rendering loop; the bench is idle.
Init ==
    /\ LoopInit
    /\ BenchInit
    /\ opA = mat4identity
    /\ opB = mat4identity

Next ==
    \/ LoopTest
    \/ BeginFrame
    \/ KeyPoll
    \/ KeyOrient
    \/ MousePoll
    \/ MouseOrient
    \/ UploadTrexMV
    \/ DrawTrex
    \/ UploadSphereMV
    \/ DrawSphere
    \/ UploadT
    \/ UploadP
    \/ DrawVertexArray
    \/ SwapAndPollEvents
    \/ EscapeCheck
    \/ Cleanup

Spec == Init /\ [][Next]_vars

\* The matrix functions on bounded inputs; the loop is idle.
InitAlg ==
    /\ BenchInit
    /\ LoopInit

SpecAlg == InitAlg /\ [][BenchNext]_vars

\* ------------------------------------------------------------------------
\* Properties
\* ------------------------------------------------------------------------
\* M * v for a column vector v = <<x, y, z, w>> (v' = M * v): element r of
\* the result is the sum over k of m[k*4+r] * v[k].
MatVec(m, v) ==
    [r \in 1..4 |->
        RAdd(RAdd(RAdd(RMul(At(m, 0 + (r - 1)), v[1]),
                       RMul(At(m, 4 + (r - 1)), v[2])),
                  RMul(At(m, 8 + (r - 1)), v[3])),
             RMul(At(m, 12 + (r - 1)), v[4]))]

\* Column c (0..3) of m, as a vector.
Column(m, c) == [k \in 1..4 |-> At(m, c * 4 + (k - 1))]

TestVectors ==
    {<<Flt(0), Flt(0), Flt(0), Flt(1)>>,
     <<Flt(2), Flt(-1), Rat(3, 2), Flt(0)>>,
     <<Flt(2), Flt(-1), Rat(3, 2), Flt(1)>>,
     <<Flt(1), Flt(2), Flt(3), Flt(2)>>}

\* C1: mat4mult(a, b) is the standard product a.b of column-major matrices:
\* result[c*4+r] is the sum over k of a[k*4+r] * b[c*4+k], column c of the
\* result is a applied to column c of b, and the call leaves a and b as they
\* were.
C1_Mat4MultIsStandardProduct ==
    /\ [](op = "mat4mult" =>
            \A c \in 0..3 :
                /\ \A r \in 0..3 :
                      At(res, c * 4 + r) =
                          RAdd(RAdd(RAdd(RMul(At(opA, 0 * 4 + r), At(opB, c * 4 + 0)),
                                         RMul(At(opA, 1 * 4 + r), At(opB, c * 4 + 1))),
                                    RMul(At(opA, 2 * 4 + r), At(opB, c * 4 + 2))),
                               RMul(At(opA, 3 * 4 + r), At(opB, c * 4 + 3)))
                /\ Column(res, c) = MatVec(opA, Column(opB, c)))
    /\ [][op' = "mat4mult" => opA' = opA /\ opB' = opB]_vars

C1_Witness ==
    /\ op = "mat4mult"
    /\ opA = TaggedA
    /\ opB = TaggedB
    /\ At(res, 0) = Rat(-296, 3)

\* C2 (as claimed): each of mat4rotx, mat4roty, mat4rotz is the right-handed
\* rotation under v' = M * v: rotx maps (0,1,0,1) to (0, cos, sin, 1), roty
\* maps (0,0,1,1) to (sin, 0, cos, 1), rotz maps (1,0,0,1) to (cos, sin, 0, 1).
C2_RotationsRightHanded ==
    /\ op = "mat4rotx" =>
          MatVec(res, <<Flt(0), Flt(1), Flt(0), Flt(1)>>) =
              <<Flt(0), Cos(args[1]), Sin(args[1]), Flt(1)>>
    /\ op = "mat4roty" =>
          MatVec(res, <<Flt(0), Flt(0), Flt(1), Flt(1)>>) =
              <<Sin(args[1]), Flt(0), Cos(args[1]), Flt(1)>>
    /\ op = "mat4rotz" =>
          MatVec(res, <<Flt(1), Flt(0), Flt(0), Flt(1)>>) =
              <<Cos(args[1]), Sin(args[1]), Flt(0), Flt(1)>>

\* C3: for zfar > znear > 0 the matrix of mat4perspective maps the on-axis
\* point (0,0,-znear,1) to z/w = -1 and (0,0,-zfar,1) to z/w = +1.
C3_PerspectiveMapsPlanes ==
    op = "mat4perspective" =>
        LET znear == args[3]
            zfar == args[4]
            pn == MatVec(res, <<Flt(0), Flt(0), RNeg(znear), Flt(1)>>)
            pf == MatVec(res, <<Flt(0), Flt(0), RNeg(zfar), Flt(1)>>)
        IN  /\ pn[4] # Flt(0)
            /\ RDiv(pn[3], pn[4]) = Flt(-1)
            /\ pf[4] # Flt(0)
            /\ RDiv(pf[3], pf[4]) = Flt(1)

C3_Witness ==
    /\ op = "mat4perspective"
    /\ args = <<PiHalf, Flt(1), Flt(1), Flt(2)>>
    /\ At(res, 0) = Flt(1)
    /\ At(res, 10) = Flt(-3)
    /\ At(res, 14) = Flt(-4)

\* C7: mat4mult(mat4identity(), M) = M and mat4mult(M, mat4identity()) = M,
\* element for element.
C7_IdentityIsNeutral ==
    op = "mat4mult" =>
        /\ opA = mat4identity => res = opB
        /\ opB = mat4identity => res = opA

C7_Witness ==
    /\ op = "mat4mult"
    /\ opA = mat4identity
    /\ opB = TaggedB
    /\ res = TaggedB

\* C8: mat4translate(x,y,z) is the identity with x, y, z at indices 12, 13,
\* 14; it maps (0,0,0,1) to (x,y,z,1) and any (a,b,c,w) to
\* (a + x*w, b + y*w, c + z*w, w), so a direction (w = 0) is unchanged.
C8_TranslateIsPureTranslation ==
    op = "mat4translate" =>
        LET x == args[1]
            y == args[2]
            z == args[3]
        IN  /\ \A i \in 0..15 :
                  At(res, i) = CASE i = 12 -> x
                                 [] i = 13 -> y
                                 [] i = 14 -> z
                                 [] i \in {0, 5, 10, 15} -> Flt(1)
                                 [] OTHER -> Flt(0)
            /\ MatVec(res, <<Flt(0), Flt(0), Flt(0), Flt(1)>>) = <<x, y, z, Flt(1)>>
            /\ \A v \in TestVectors :
                  MatVec(res, v) =
                      <<RAdd(v[1], RMul(x, v[4])), RAdd(v[2], RMul(y, v[4])),
                        RAdd(v[3], RMul(z, v[4])), v[4]>>
            /\ \A v \in TestVectors : v[4] = Flt(0) => MatVec(res, v) = v

C8_Witness ==
    /\ op = "mat4translate"
    /\ args = <<Flt(1), Flt(-3), Rat(4, 5)>>
    /\ MatVec(res, <<Flt(1), Flt(2), Flt(3), Flt(2)>>) =
           <<Flt(3), Flt(-4), Rat(23, 5), Flt(2)>>

\* C4 (as claimed): every mesh draw of an iteration (myTrex.render,
\* myShpere.render) comes after the uploads, in that same iteration, of the
\* model-view matrix, of the illumination matrix T and of the projection P.
C4_MeshDrawsAfterAllUploads ==
    \A i \in 1..Len(draws) :
        draws[i].mesh \in {"myTrex", "myShpere"} =>
            /\ draws[i].uploadedIn.MV = frame
            /\ draws[i].uploadedIn.T = frame
            /\ draws[i].uploadedIn.P = frame

\* C5 (as claimed): the projection uploaded in an iteration has its [0][0]
\* term equal to f divided by the aspect ratio width/height the window has
\* in that iteration.
C5_ProjectionFollowsAspect ==
    (frame > 0 /\ uploadedIn.P = frame) =>
        At(uniform.P, 0) = RDiv(At(uniform.P, 5), Rat(width, height))

\* The locals composed so far in the current iteration.
Composed == {m \in {matKey, matMouse, rSpin, Ilumination, P} : m # NoMat}

\* C6 (as claimed): each rotator is polled exactly once per iteration, both
\* polls come before any matrix composition of the iteration, and the
\* orientation matrices are built from the angles of that iteration's polls.
C6_BothPollsBeforeAnyComposition ==
    /\ polls.key <= 1
    /\ polls.mouse <= 1
    /\ Composed # {} => polls.key = 1 /\ polls.mouse = 1
    /\ matKey # NoMat =>
          matKey = mat4mult(mat4rotz(NegAngle(keyRot.phi)),
                            mat4rotx(NegAngle(keyRot.theta)))
    /\ matMouse # NoMat =>
          matMouse = mat4mult(mat4rotz(mouseRot.phi),
                              mat4rotx(NegAngle(mouseRot.theta)))

\* C6 (amended): each rotator is polled exactly once per iteration; the key
\* poll comes before every matrix composition of the iteration; the mouse
\* poll comes after the key orientation matrix is composed and before the
\* mouse orientation matrix and every later composition; each orientation
\* matrix is built from the angles its own rotator holds after that
\* iteration's poll.
C6_EachPollBeforeItsOrientation ==
    /\ polls.key <= 1
    /\ polls.mouse <= 1
    /\ Composed # {} => polls.key = 1
    /\ Composed \ {matKey} # {} => polls.mouse = 1
    /\ polls.mouse = 1 => matKey # NoMat
    /\ (frame > 0 /\ pc \in {"loop_test", "cleanup", "done"}) =>
          polls.key = 1 /\ polls.mouse = 1
    /\ matKey # NoMat =>
          matKey = mat4mult(mat4rotz(NegAngle(keyRot.phi)),
                            mat4rotx(NegAngle(keyRot.theta)))
    /\ matMouse # NoMat =>
          matMouse = mat4mult(mat4rotz(mouseRot.phi),
                              mat4rotx(NegAngle(mouseRot.theta)))

C6_Witness ==
    /\ frame = 2
    /\ pc = "mv_trex"
    /\ polls = [key |-> 1, mouse |-> 1]
    /\ keyRot = [phi |-> <<0, 1, 0>>, theta |-> <<0, 0, 0>>]
    /\ mouseRot = [phi |-> <<0, 0, 0>>, theta |-> <<0, 1, 0>>]
    /\ matKey # NoMat
    /\ matMouse # NoMat

\* C9: the loop tests the should-close flag only at the top of an iteration:
\* the flag is set only by the end-of-frame event poll or ESC check, after
\* which the iteration ends, no further iteration begins (nothing is polled,
\* composed, uploaded or drawn), the loop exits, and every buffer, the vertex
\* array and the window are released exactly once.
C9_CloseEndsLoopAndReleasesOnce ==
    /\ [](\A k \in DOMAIN released :
            released[k] = IF pc = "done" THEN 1 ELSE 0)
    /\ [][/\ (~shouldClose /\ shouldClose') => pc \in {"swap_poll", "esc_check"}
          /\ shouldClose =>
                /\ shouldClose'
                /\ frame' = frame
                /\ pc \in {"esc_check", "loop_test", "cleanup", "done"}
                /\ pc = "esc_check" => pc' = "loop_test"
                /\ pc = "loop_test" => pc' = "cleanup"
                /\ pc = "cleanup" => pc' = "done"
                /\ <<keyRot, mouseRot, polls, matKey, matMouse, rSpin,
                     Ilumination, P, uniform, uploadedIn, draws>>' =
                   <<keyRot, mouseRot, polls, matKey, matMouse, rSpin,
                     Ilumination, P, uniform, uploadedIn, draws>>]_vars

C9_Witness ==
    /\ pc = "done"
    /\ shouldClose
    /\ escDown
    /\ frame = 2
    /\ Len(draws) = 4
    /\ \A k \in DOMAIN released : released[k] = 1

\* The bottom row of m is (0, 0, 0, 1).
Affine(m) ==
    /\ At(m, 3) = Flt(0)
    /\ At(m, 7) = Flt(0)
    /\ At(m, 11) = Flt(0)
    /\ At(m, 15) = Flt(1)

\* C10: every model-view matrix the loop composes and uploads, for the
\* primary and for the orbiting object, has elements 3, 7, 11 equal to 0 and
\* element 15 equal to 1.
C10_ModelViewIsAffine ==
    /\ rSpin # NoMat => Affine(rSpin)
    /\ uploadedIn.MV > 0 => Affine(uniform.MV)

C10_Witness ==
    /\ frame = 2
    /\ pc = "draw_sphere"
    /\ time = 2
    /\ keyRot = [phi |-> <<0, 1, 0>>, theta |-> <<0, 1, 0>>]
    /\ uniform.MV = rSpin
    /\ At(rSpin, 14) # Flt(-3)

====
